---- MODULE Spec2Model ----
(***************************************************************************)
(* A model of crates/tasks_ui/src/lib.rs: resolution of a task's working   *)
(* directory (task_cwd), resolution of its context (task_context), the     *)
(* scheduler (schedule_task) and the handlers that call it (the Rerun      *)
(* action, spawn_task_or_modal, spawn_task_with_name).                     *)
(***************************************************************************)
EXTENDS Integers, Sequences, FiniteSets, TLC

VARIABLES
    worktrees,       \* project.worktrees(): the project's roots, in order
    active_entry,    \* project.active_entry(): Option<ProjectEntryId>
    active_item,     \* workspace.active_item(): "none", an editor's id, or
                     \* "other", an item that is no editor
    editors,         \* the editors of the workspace: for each its selection,
                     \* its buffer (text, file, outline) and the context
                     \* provider of the buffer's language
    last_scheduled,  \* inventory.last_scheduled_task(): Option<(task, context)>
    pending_spawns,  \* futures detached by spawn_task_with_name, not yet polled
    modal,           \* whether the TasksModal (the task picker) is shown
    pc,              \* position of the running handler: "idle" when none
                     \* runs, a statement of schedule_task, "modal" at the
                     \* end of spawn_task_or_modal; "closed" once the
                     \* workspace is dropped, "panicked" after a panic
    call,            \* the arguments and locals of the running schedule_task
    pending_effects, \* events emitted by the running handler (cx.emit)
    error_log,       \* number of errors written by log_err() in the running handler
    stats,           \* how often prepare_exec returned a descriptor, and how
                     \* many SpawnTask events were emitted, since construction
    cwd_result,      \* the value returned by a direct call of task_cwd
    context_result   \* the value returned by a direct call of task_context

vars == <<worktrees, active_entry, active_item, editors, last_scheduled,
          pending_spawns, modal, pc, call, pending_effects, error_log,
          stats, cwd_result, context_result>>

(***************************************************************************)
(* Bounds of the model.                                                    *)
(***************************************************************************)
\* longest list of project roots a direct call of task_cwd is given
MaxWorktrees == 3
\* most detached spawn-by-name futures waiting to be polled
MaxPending == 2
\* most SpawnTask events emitted in one run of the model
MaxSpawns == 4
\* most variables a language's context provider returns
MaxProviderVars == 2

(***************************************************************************)
(* Option<T> is a sequence of length at most one, anyhow::Result<T> a      *)
(* record.                                                                 *)
(***************************************************************************)
None == << >>
Some(x) == <<x>>
IsSome(o) == o # None
Unwrap(o) == o[1]

Ok(v) == [ok |-> TRUE, val |-> v, err |-> ""]
Err(msg) == [ok |-> FALSE, val |-> None, err |-> msg]

\* Result<Option<T>>::log_err().flatten(): an error becomes None
LogErrFlatten(r) == IF r.ok THEN r.val ELSE None

Min(S) == CHOOSE x \in S : \A y \in S : x <= y

(***************************************************************************)
(* Worktrees.  The worktree at position i of the project has id i, the     *)
(* absolute path WorktreePath(i) and holds the project entry i.            *)
(***************************************************************************)
WorktreePath(i) == IF i = 1 THEN "/dir" ELSE "/dir" \o ToString(i)

RootEntries == {None, Some([is_dir |-> TRUE]), Some([is_dir |-> FALSE])}

Worktree(i, vis, loc, root) ==
    [id |-> i, abs_path |-> WorktreePath(i), is_visible |-> vis,
     is_local |-> loc, root_entry |-> root, entries |-> {i}]

contains_entry(worktree, entry_id) == entry_id \in worktree.entries

\* IsAvailable without the test of worktree.is_visible()
IsAvailable_ignores_visibility(worktree) ==
    /\ worktree.is_local
    /\ IF worktree.root_entry = None THEN FALSE
       ELSE Unwrap(worktree.root_entry).is_dir

\* the filter of task_cwd: visible, local, and rooted at a directory
IsAvailable(worktree) ==
    /\ worktree.is_visible
    /\ worktree.is_local
    /\ IF worktree.root_entry = None THEN FALSE
       ELSE Unwrap(worktree.root_entry).is_dir

available_worktrees(wts) == SelectSeq(wts, IsAvailable)

\* cwd_for_active_entry without the test of contains_entry
cwd_for_active_entry_first(available, entry) ==
    IF entry = None \/ Len(available) = 0 THEN None
    ELSE Some(available[1].abs_path)

\* find_map over the available worktrees: the path of the first one that
\* contains the entry
cwd_for_active_entry(available, entry) ==
    IF entry = None THEN None
    ELSE LET hits == {i \in 1..Len(available) :
                         contains_entry(available[i], Unwrap(entry))}
         IN  IF hits = {} THEN None
             ELSE Some(available[Min(hits)].abs_path)

\* task_cwd that takes the first available worktree instead of failing
task_cwd_first_on_ambiguity(wts, entry) ==
    LET available == available_worktrees(wts) IN
    CASE Len(available) = 0 -> Ok(None)
      [] Len(available) = 1 -> Ok(Some(available[1].abs_path))
      [] OTHER ->
           LET found == cwd_for_active_entry(available, entry) IN
           IF IsSome(found) THEN Ok(found)
           ELSE Ok(Some(available[1].abs_path))

task_cwd(wts, entry) ==
    LET available == available_worktrees(wts) IN
    CASE Len(available) = 0 -> Ok(None)
      [] Len(available) = 1 -> Ok(Some(available[1].abs_path))
      [] OTHER ->
           LET found == cwd_for_active_entry(available, entry) IN
           IF IsSome(found) THEN Ok(found)
           ELSE Err("Cannot determine task cwd for multiple worktrees")

(***************************************************************************)
(* Editors and their buffers.  A buffer's text is a sequence of            *)
(* characters; offsets count characters from 0.  point_to_buffer_offset,   *)
(* offset_to_point, chars_for_range and the outline of a buffer are the    *)
(* editing surface's and the language's own operations.                    *)
(***************************************************************************)
\* rust/b.rs: "use std; fn this_is_a_rust_file() { }"
RustText ==
    <<"u", "s", "e", " ", "s", "t", "d", ";", " ", "f", "n", " ",
      "t", "h", "i", "s", "_", "i", "s", "_", "a", "_",
      "r", "u", "s", "t", "_", "f", "i", "l", "e",
      "(", ")", " ", "{", " ", "}">>

\* a.ts: "function this_is_a_test() { }"
TypescriptText ==
    <<"f", "u", "n", "c", "t", "i", "o", "n", " ",
      "t", "h", "i", "s", "_", "i", "s", "_", "a", "_", "t", "e", "s", "t",
      "(", ")", " ", "{", " ", "}">>

\* a buffer of three rows, with no function in it
RowsText == <<"a", "\n", "b", "\n", "c">>

\* what the outline query of the buffer's language captures: the items, with
\* their extent in the buffer and their name
RustOutline == <<[start |-> 9, end |-> 37, name |-> "this_is_a_rust_file"]>>

TypescriptOutline == <<[start |-> 0, end |-> 29, name |-> "this_is_a_test"]>>

\* selection.range() of the newest selection: start <= end
SelectionsAt(offsets) ==
    {sel \in [start : offsets, end : offsets] : sel.start <= sel.end}

\* the cursor at the start of the buffer, and the identifier part that the
\* test selects
Cursor == [start |-> 0, end |-> 0]

Selections == {Cursor, [start |-> 14, end |-> 18]}

\* the row and column (both from 0) of an offset
offset_to_point(text, offset) ==
    LET newlines == {i \in 1..offset : text[i] = "\n"}
        line_start == IF newlines = {} THEN 0
                      ELSE CHOOSE i \in newlines : \A j \in newlines : j <= i
    IN  [row |-> Cardinality(newlines), column |-> offset - line_start]

RECURSIVE chars_for_range(_, _, _)
chars_for_range(text, start, end) ==
    IF start >= end THEN ""
    ELSE text[start + 1] \o chars_for_range(text, start + 1, end)

\* buffer.symbols_containing(offset): the outline items around the offset,
\* outermost first
symbols_containing(outline, offset) ==
    SelectSeq(outline, LAMBDA item : item.start <= offset /\ offset <= item.end)

(***************************************************************************)
(* TaskVariables: a map from variable name to string.                      *)
(***************************************************************************)
Row == "Row"
Column == "Column"
SelectedText == "SelectedText"
File == "File"
WorktreeRoot == "WorktreeRoot"
Symbol == "Symbol"

EmptyVariables == [k \in {} |-> ""]

insert(variables, name, value) ==
    [k \in DOMAIN variables \cup {name} |->
        IF k = name THEN value ELSE variables[k]]

\* TaskVariables::extend: every pair of `other` is inserted
extend(variables, other) ==
    [k \in DOMAIN variables \cup DOMAIN other |->
        IF k \in DOMAIN other THEN other[k] ELSE variables[k]]

TaskContext(cwd, variables) == [cwd |-> cwd, task_variables |-> variables]

\* project.worktree_for_id(id).map(|worktree| worktree.abs_path())
worktree_path_for_id(wts, id) ==
    LET hits == {i \in 1..Len(wts) : wts[i].id = id}
    IN  IF hits = {} THEN None ELSE Some(wts[Min(hits)].abs_path)

\* the context providers a language can have: the SymbolContextProvider of
\* the language crate, one whose build_context fails, and one that returns
\* the variables it is made with
SymbolContextProvider == [kind |-> "symbol", vars |-> EmptyVariables]

FailingProvider == [kind |-> "failing", vars |-> EmptyVariables]

FixedProvider(variables) == [kind |-> "fixed", vars |-> variables]

\* provider.build_context(location, cx): SymbolContextProvider answers with
\* the name of the innermost outline item around the start of the location,
\* and with no variable when there is none
build_context(provider, ed) ==
    CASE provider.kind = "symbol" ->
           LET symbols == symbols_containing(ed.outline, ed.selection.start)
           IN  IF symbols = << >> THEN Ok(EmptyVariables)
               ELSE Ok(insert(EmptyVariables, Symbol,
                              symbols[Len(symbols)].name))
      [] provider.kind = "failing" -> Err("build_context failed")
      [] OTHER -> Ok(provider.vars)

\* buffer.language().and_then(context_provider)
\*     .and_then(|provider| provider.build_context(location, cx).ok())
language_context(ed) ==
    IF ed.provider = None THEN None
    ELSE LET built == build_context(Unwrap(ed.provider), ed)
         IN  IF built.ok THEN Some(built.val) ELSE None

\* task_context with one step of lines 123-206 done otherwise
task_context_with(fault, current_editor, wts, cwd) ==
    IF current_editor = None THEN TaskContext(cwd, EmptyVariables)
    ELSE
      LET ed == Unwrap(current_editor) IN
      IF ~ed.mappable /\ fault # "ignores_unmappable"
      THEN TaskContext(cwd, EmptyVariables)
      ELSE IF fault = "provider_failure_empties" /\ IsSome(ed.provider)
              /\ ~build_context(Unwrap(ed.provider), ed).ok
      THEN TaskContext(cwd, EmptyVariables)
      ELSE
        LET point == offset_to_point(ed.text, ed.selection.start)
            row == IF fault = "zero_based" THEN point.row ELSE point.row + 1
            column == IF fault = "zero_based" THEN point.column
                      ELSE point.column + 1
            current_file ==
                IF ed.file # None /\ Unwrap(ed.file).is_local
                THEN Some(Unwrap(ed.file).abs_path) ELSE None
            worktree_path ==
                IF ed.file = None THEN None
                ELSE worktree_path_for_id(wts, Unwrap(ed.file).worktree_id)
            context == language_context(ed)
            selected_text ==
                chars_for_range(ed.text, ed.selection.start, ed.selection.end)
            base == IF fault = "provider_first" /\ IsSome(context)
                    THEN Unwrap(context) ELSE EmptyVariables
            v_pos == insert(insert(base, Row, ToString(row)),
                            Column, ToString(column))
            v0 == IF fault = "omits_empty_selection" /\ selected_text = ""
                  THEN v_pos ELSE insert(v_pos, SelectedText, selected_text)
            v1 == IF IsSome(current_file)
                  THEN insert(v0, File, Unwrap(current_file)) ELSE v0
            v2 == IF IsSome(worktree_path)
                  THEN insert(v1, WorktreeRoot, Unwrap(worktree_path)) ELSE v1
            v3 == IF IsSome(context) /\ fault # "provider_first"
                  THEN extend(v2, Unwrap(context)) ELSE v2
        IN  TaskContext(cwd, v3)

\* a selection start that maps to no buffer offset does not end the resolution
task_context_ignores_unmappable(current_editor, wts, cwd) ==
    task_context_with("ignores_unmappable", current_editor, wts, cwd)

\* a failing provider ends the resolution as an unmappable selection does
task_context_provider_failure_empties(current_editor, wts, cwd) ==
    task_context_with("provider_failure_empties", current_editor, wts, cwd)

\* the provider's variables go in first, the well-known ones over them
task_context_provider_first(current_editor, wts, cwd) ==
    task_context_with("provider_first", current_editor, wts, cwd)

\* Row and Column as the buffer counts them, from 0
task_context_zero_based(current_editor, wts, cwd) ==
    task_context_with("zero_based", current_editor, wts, cwd)

\* no SelectedText for a selection of no characters
task_context_omits_empty_selection(current_editor, wts, cwd) ==
    task_context_with("omits_empty_selection", current_editor, wts, cwd)

\* current_editor is workspace.active_item(cx).and_then(act_as::<Editor>)
task_context(current_editor, wts, cwd) ==
    IF current_editor = None THEN TaskContext(cwd, EmptyVariables)
    ELSE
      LET ed == Unwrap(current_editor) IN
      IF ~ed.mappable THEN TaskContext(cwd, EmptyVariables)
      ELSE
        LET point == offset_to_point(ed.text, ed.selection.start)
            row == point.row + 1
            column == point.column + 1
            current_file ==
                IF ed.file # None /\ Unwrap(ed.file).is_local
                THEN Some(Unwrap(ed.file).abs_path) ELSE None
            worktree_path ==
                IF ed.file = None THEN None
                ELSE worktree_path_for_id(wts, Unwrap(ed.file).worktree_id)
            context == language_context(ed)
            selected_text ==
                chars_for_range(ed.text, ed.selection.start, ed.selection.end)
            v0 == insert(insert(insert(EmptyVariables, Row, ToString(row)),
                                Column, ToString(column)),
                         SelectedText, selected_text)
            v1 == IF IsSome(current_file)
                  THEN insert(v0, File, Unwrap(current_file)) ELSE v0
            v2 == IF IsSome(worktree_path)
                  THEN insert(v1, WorktreeRoot, Unwrap(worktree_path)) ELSE v1
            v3 == IF IsSome(context) THEN extend(v2, Unwrap(context)) ELSE v2
        IN  TaskContext(cwd, v3)

(***************************************************************************)
(* Tasks and the inventory's listing.                                      *)
(***************************************************************************)
\* the tasks of the inventory, in the order of their sources: one from the
\* tasks.json of root 1, one the user typed in (of no root).  A task is
\* materialised only when the variables its template names are set
TaskList ==
    << [id |-> 1, name |-> "build", requires |-> {Symbol}, worktree |-> Some(1)],
       [id |-> 2, name |-> "build", requires |-> {}, worktree |-> None] >>

Tasks == {TaskList[i] : i \in 1..Len(TaskList)}

TaskNames == {"build", "lint"}

prepare_exec(task, task_cx) ==
    IF task.requires \subseteq DOMAIN task_cx.task_variables
    THEN Some([label |-> task.name, id |-> task.id, cwd |-> task_cx.cwd,
               env |-> task_cx.task_variables])
    ELSE None

\* inventory.list_tasks(language, worktree, false, cx): the tasks of the
\* sources of no root, and of the root asked for (of every root when none is)
list_tasks(language, worktree) ==
    SelectSeq(TaskList,
              LAMBDA task : \/ worktree = None
                            \/ task.worktree = None
                            \/ task.worktree = worktree)

\* tasks.into_iter().find(|(_, task)| task.name() == name)
find_task(tasks, name) ==
    LET hits == {i \in 1..Len(tasks) : tasks[i].name = name}
    IN  IF hits = {} THEN None ELSE Some(tasks[Min(hits)])

SpawnTask(spawn_in_terminal) == [event |-> "SpawnTask", spawn |-> spawn_in_terminal]

(***************************************************************************)
(* The state after construction: one project root, /dir, and two editors   *)
(* in the centre pane: editor1 on a.ts and editor2, the active one, on     *)
(* rust/b.rs, both with the cursor at the start and both of a language     *)
(* with the SymbolContextProvider; nothing is scheduled yet.               *)
(***************************************************************************)
DirRoot == Some([is_dir |-> TRUE])

\* a visible local root that is a directory
OpenWorktree(i) == Worktree(i, TRUE, TRUE, DirRoot)

RustFile ==
    [is_local |-> TRUE, abs_path |-> "/dir/rust/b.rs", worktree_id |-> 1]

TypescriptFile ==
    [is_local |-> TRUE, abs_path |-> "/dir/a.ts", worktree_id |-> 1]

Editor(text, outline, language, file, provider, selection, mappable) ==
    [text |-> text, outline |-> outline, language |-> language, file |-> file,
     provider |-> provider, selection |-> selection, mappable |-> mappable]

InitEditors ==
    [item \in {"editor1", "editor2"} |->
        IF item = "editor1"
        THEN Editor(TypescriptText, TypescriptOutline, Some("typescript"),
                    Some(TypescriptFile), Some(SymbolContextProvider),
                    Cursor, TRUE)
        ELSE Editor(RustText, RustOutline, Some("rust"),
                    Some(RustFile), Some(SymbolContextProvider),
                    Cursor, TRUE)]

NoCall ==
    [task |-> None, task_cx |-> None, omit_history |-> FALSE,
     spawn_in_terminal |-> None, origin |-> "none", prepare_calls |-> 0]

Idle ==
    /\ last_scheduled = None
    /\ pending_spawns = << >>
    /\ modal = FALSE
    /\ pc = "idle"
    /\ call = NoCall
    /\ pending_effects = << >>
    /\ error_log = 0
    /\ stats = [prepared |-> 0, spawned |-> 0]
    /\ cwd_result = None
    /\ context_result = None

Init ==
    /\ worktrees = <<OpenWorktree(1)>>
    /\ active_entry = None
    /\ active_item = "editor2"
    /\ editors = InitEditors
    /\ Idle

project == <<worktrees, active_entry>>
workspace_items == <<active_item, editors>>
scheduler == <<pc, call, pending_effects, error_log, stats>>
results == <<cwd_result, context_result>>

(***************************************************************************)
(* What the user and the project do between two handlers.                  *)
(***************************************************************************)
\* the roots the user opens and closes while tasks are scheduled
OpenRootIds == {1, 2}

\* the user is at the editor or the project panel: no handler is running
\* and the task picker, which takes the focus while shown, is hidden
UserAtWorkspace == pc = "idle" /\ ~modal

\* editor.change_selections(..select_ranges([sel])) on the active editor
ChangeSelections(sel) ==
    /\ UserAtWorkspace
    /\ active_item \in DOMAIN editors
    /\ editors' = [editors EXCEPT ![active_item].selection = sel]
    /\ UNCHANGED <<project, active_item, last_scheduled, pending_spawns,
                   modal, scheduler, results>>

ActivateItem(item) ==
    /\ UserAtWorkspace
    /\ active_item' = item
    /\ UNCHANGED <<project, editors, last_scheduled, pending_spawns, modal,
                   scheduler, results>>

AddWorktree ==
    /\ UserAtWorkspace
    /\ Len(worktrees) + 1 \in OpenRootIds
    /\ worktrees' = Append(worktrees, OpenWorktree(Len(worktrees) + 1))
    /\ UNCHANGED <<active_entry, workspace_items, last_scheduled,
                   pending_spawns, modal, scheduler, results>>

\* the last root is closed; the active entry goes with its root
RemoveWorktree ==
    /\ UserAtWorkspace
    /\ worktrees # << >>
    /\ worktrees' = SubSeq(worktrees, 1, Len(worktrees) - 1)
    /\ active_entry' = IF active_entry = Some(Len(worktrees)) THEN None
                       ELSE active_entry
    /\ UNCHANGED <<workspace_items, last_scheduled,
                   pending_spawns, modal, scheduler, results>>

SetActiveEntry(entry) ==
    /\ UserAtWorkspace
    /\ IF entry = None THEN TRUE ELSE Unwrap(entry) \in 1..Len(worktrees)
    /\ active_entry' = entry
    /\ UNCHANGED <<worktrees, workspace_items, last_scheduled,
                   pending_spawns, modal, scheduler, results>>

(***************************************************************************)
(* schedule_task, one step per statement.  A handler runs to its end       *)
(* before anything else happens: nothing but the steps below is enabled    *)
(* while pc is not "idle".                                                 *)
(***************************************************************************)
\* current_cwd that falls back to the first root when task_cwd fails
current_cwd_first_root ==
    IF task_cwd(worktrees, active_entry).ok
    THEN task_cwd(worktrees, active_entry).val
    ELSE Some(worktrees[1].abs_path)

\* let cwd = task_cwd(workspace, cx).log_err().flatten()
current_cwd == LogErrFlatten(task_cwd(worktrees, active_entry))

\* workspace.active_item(cx).and_then(|item| item.act_as::<Editor>(cx))
current_editor ==
    IF active_item \in DOMAIN editors THEN Some(editors[active_item])
    ELSE None

\* task_context(workspace, cwd, cx) on the present state
current_context == task_context(current_editor, worktrees, current_cwd)

\* active_item_selection_properties: the root of the active item's project
\* path, and the language of the active editor's buffer at the start of its
\* selection
active_item_selection_properties ==
    LET worktree_id ==
            IF IsSome(current_editor) /\ IsSome(Unwrap(current_editor).file)
            THEN Some(Unwrap(Unwrap(current_editor).file).worktree_id)
            ELSE None
        language ==
            IF IsSome(current_editor) /\ Unwrap(current_editor).mappable
            THEN Unwrap(current_editor).language
            ELSE None
    IN  [worktree |-> worktree_id, language |-> language]

\* the call schedule_task(workspace, &task, task_cx, omit_history, cx).  The
\* code has no limit of calls: the first conjunct caps the counters of stats,
\* and with them the length of the runs that are explored
schedule_task(task, task_cx, omit_history, origin) ==
    /\ stats.spawned < MaxSpawns
    /\ call' = [task |-> Some(task), task_cx |-> Some(task_cx),
                omit_history |-> omit_history, spawn_in_terminal |-> None,
                origin |-> origin, prepare_calls |-> 0]
    /\ pc' = "prepare"
    /\ pending_effects' = << >>
    /\ UNCHANGED stats

\* schedule_next with the history recorded before prepare's result is tested
schedule_next_records_failure(at, spawn_in_terminal, omit_history) ==
    CASE at = "prepare" ->
           IF ~omit_history THEN "record"
           ELSE IF spawn_in_terminal = None THEN "return" ELSE "emit"
      [] at = "record" -> IF spawn_in_terminal = None THEN "return" ELSE "emit"
      [] OTHER -> "return"

\* schedule_next with the event emitted before the history is recorded
schedule_next_emit_first(at, spawn_in_terminal, omit_history) ==
    CASE at = "prepare" -> IF spawn_in_terminal = None THEN "return" ELSE "emit"
      [] at = "emit" -> IF ~omit_history THEN "record" ELSE "return"
      [] OTHER -> "return"

\* schedule_next with omit_history skipping the event as well
schedule_next_omit_skips_emit(at, spawn_in_terminal, omit_history) ==
    CASE at = "prepare" ->
           IF spawn_in_terminal = None \/ omit_history THEN "return"
           ELSE "record"
      [] at = "record" -> "emit"
      [] OTHER -> "return"

\* schedule_next with the history recorded whatever omit_history is
schedule_next_ignores_omit_history(at, spawn_in_terminal, omit_history) ==
    CASE at = "prepare" ->
           IF spawn_in_terminal = None THEN "return" ELSE "record"
      [] at = "record" -> "emit"
      [] OTHER -> "return"

\* schedule_next with a failed prepare tried again
schedule_next_retries_failed_prepare(at, spawn_in_terminal, omit_history) ==
    CASE at = "prepare" ->
           IF spawn_in_terminal = None THEN "prepare"
           ELSE IF ~omit_history THEN "record" ELSE "emit"
      [] at = "record" -> "emit"
      [] OTHER -> "return"

\* the statement that follows `at` in the body of schedule_task
schedule_next(at, spawn_in_terminal, omit_history) ==
    CASE at = "prepare" ->
           IF spawn_in_terminal = None THEN "return"
           ELSE IF ~omit_history THEN "record" ELSE "emit"
      [] at = "record" -> "emit"
      [] OTHER -> "return"

\* let spawn_in_terminal = task.prepare_exec(task_cx.clone())
SchedulePrepare ==
    /\ pc = "prepare"
    /\ LET spawn == prepare_exec(Unwrap(call.task), Unwrap(call.task_cx)) IN
       /\ call' = [call EXCEPT !.spawn_in_terminal = spawn,
                               !.prepare_calls = @ + 1]
       /\ pc' = schedule_next("prepare", spawn, call.omit_history)
       /\ stats' = [stats EXCEPT !.prepared = IF IsSome(spawn) THEN @ + 1 ELSE @]
    /\ UNCHANGED <<project, workspace_items, last_scheduled, pending_spawns,
                   modal, pending_effects, error_log, results>>

\* ScheduleRecord that keeps the context the slot already holds
ScheduleRecord_keeps_old_context ==
    /\ pc = "record"
    /\ last_scheduled' =
           Some(<<Unwrap(call.task),
                  IF IsSome(last_scheduled) THEN Unwrap(last_scheduled)[2]
                  ELSE Unwrap(call.task_cx)>>)
    /\ pc' = schedule_next("record", call.spawn_in_terminal, call.omit_history)
    /\ UNCHANGED <<project, workspace_items, pending_spawns, modal, call,
                   pending_effects, error_log, stats, results>>

\* inventory.task_scheduled(Arc::clone(task), task_cx)
ScheduleRecord ==
    /\ pc = "record"
    /\ last_scheduled' = Some(<<Unwrap(call.task), Unwrap(call.task_cx)>>)
    /\ pc' = schedule_next("record", call.spawn_in_terminal, call.omit_history)
    /\ UNCHANGED <<project, workspace_items, pending_spawns, modal, call,
                   pending_effects, error_log, stats, results>>

\* cx.emit(workspace::Event::SpawnTask(spawn_in_terminal))
ScheduleEmit ==
    /\ pc = "emit"
    /\ pending_effects' =
           Append(pending_effects, SpawnTask(Unwrap(call.spawn_in_terminal)))
    /\ pc' = schedule_next("emit", call.spawn_in_terminal, call.omit_history)
    /\ stats' = [stats EXCEPT !.spawned = @ + 1]
    /\ UNCHANGED <<project, workspace_items, last_scheduled, pending_spawns,
                   modal, call, error_log, results>>

\* the handler returns: its events go to the workspace's subscribers
HandlerReturn ==
    /\ pc \in {"return", "modal"}
    /\ pc' = "idle"
    /\ call' = NoCall
    /\ pending_effects' = << >>
    /\ error_log' = 0
    /\ UNCHANGED <<project, workspace_items, last_scheduled, pending_spawns,
                   modal, stats, results>>

(***************************************************************************)
(* The handlers.                                                           *)
(***************************************************************************)
\* errors log_err() writes while the working directory is resolved
cwd_errors == IF task_cwd(worktrees, active_entry).ok THEN 0 ELSE 1

\* rerun_context that always resolves the context again
rerun_context_fresh(reevaluate_context, old_context) == current_context

\* rerun_context that always reuses the stored context
rerun_context_stale(reevaluate_context, old_context) == old_context

\* the context the Rerun handler schedules with
rerun_context(reevaluate_context, old_context) ==
    IF reevaluate_context THEN current_context ELSE old_context

\* rerun_omit_history with the history omitted
rerun_omit_history_true == TRUE

\* the omit_history argument the Rerun handler passes
rerun_omit_history == FALSE

\* Rerun that, with nothing in the slot, schedules the first listed task
Rerun_schedules_on_empty_slot(reevaluate_context) ==
    /\ pc = "idle"
    /\ LET task == IF last_scheduled = None THEN TaskList[1]
                   ELSE Unwrap(last_scheduled)[1]
           old_context == IF last_scheduled = None THEN current_context
                          ELSE Unwrap(last_scheduled)[2]
       IN  /\ schedule_task(task,
                            rerun_context(reevaluate_context, old_context),
                            rerun_omit_history,
                            IF reevaluate_context THEN "rerun_reevaluate"
                            ELSE "rerun")
           /\ error_log' = IF reevaluate_context THEN cwd_errors ELSE 0
    /\ UNCHANGED <<project, workspace_items, last_scheduled, pending_spawns,
                   modal, results>>

\* the action modal::Rerun
Rerun(reevaluate_context) ==
    /\ pc = "idle"
    /\ IF last_scheduled = None
       THEN UNCHANGED <<scheduler>>
       ELSE LET task == Unwrap(last_scheduled)[1]
                old_context == Unwrap(last_scheduled)[2]
            IN  /\ schedule_task(task,
                                 rerun_context(reevaluate_context, old_context),
                                 rerun_omit_history,
                                 IF reevaluate_context THEN "rerun_reevaluate"
                                 ELSE "rerun")
                /\ error_log' = IF reevaluate_context THEN cwd_errors ELSE 0
    /\ UNCHANGED <<project, workspace_items, last_scheduled, pending_spawns,
                   modal, results>>

\* workspace.toggle_modal: shows the task picker, or hides the one shown
toggle_modal == modal' = ~modal

\* the None arm of spawn_task_or_modal: the working directory is resolved
\* (an error is logged), the context is resolved, and the task picker is
\* toggled with it
spawn_modal ==
    /\ error_log' = cwd_errors
    /\ toggle_modal
    /\ pc' = "modal"
    /\ UNCHANGED <<call, pending_effects, stats>>

\* spawn_task_or_modal with action.task_name = None
SpawnModal ==
    /\ pc = "idle"
    /\ spawn_modal
    /\ UNCHANGED <<project, workspace_items, last_scheduled, pending_spawns,
                   results>>

\* spawn_task_or_modal with action.task_name = Some(name): the future of
\* spawn_task_with_name is detached.  The code has no limit of futures: the
\* second conjunct caps the queue
SpawnNamed(name) ==
    /\ pc = "idle"
    /\ Len(pending_spawns) < MaxPending
    /\ pending_spawns' = Append(pending_spawns, name)
    /\ UNCHANGED <<project, workspace_items, last_scheduled, modal,
                   scheduler, results>>

\* what the application does with workspace.update (line 95, called from
\* line 64) on the workspace that the update of line 63 is running on: it
\* runs it, or it refuses the second update of one entity and panics
NestedUpdateOutcomes == {"runs", "panics"}

\* the panic of a foreground task ends the application
Panic ==
    /\ pc' = "panicked"
    /\ UNCHANGED <<call, pending_effects, error_log, stats, modal>>

\* the workspace is closed: the view is dropped with its items and its
\* task picker; the futures it detached are still polled
CloseWorkspace ==
    /\ UserAtWorkspace
    /\ pc' = "closed"
    /\ active_item' = "none"
    /\ UNCHANGED <<project, editors, last_scheduled, pending_spawns, modal,
                   call, pending_effects, error_log, stats, results>>

\* the future of spawn_task_with_name is polled.  On a dropped workspace
\* both updates fail and .ok() discards the errors; otherwise the first
\* update schedules the task found, and when it finds none the second
\* update runs spawn_task_or_modal(&Spawn::default())
SpawnTaskWithName ==
    /\ pc \in {"idle", "closed"}
    /\ pending_spawns # << >>
    /\ pending_spawns' = Tail(pending_spawns)
    /\ IF pc = "closed" THEN UNCHANGED <<scheduler, modal>>
       ELSE
         \E nested_update \in NestedUpdateOutcomes :
          IF nested_update = "panics" THEN Panic
          ELSE
            LET properties == active_item_selection_properties
                tasks == list_tasks(properties.language, properties.worktree)
                target_task == find_task(tasks, Head(pending_spawns))
            IN  IF IsSome(target_task)
                THEN /\ schedule_task(Unwrap(target_task), current_context,
                                      FALSE, "spawn_with_name")
                     /\ error_log' = cwd_errors
                     /\ UNCHANGED modal
                ELSE spawn_modal
    /\ UNCHANGED <<project, workspace_items, last_scheduled, results>>

\* the task picker confirms a task: it schedules it with the context the
\* picker was opened with, which is the context of the present state (nothing
\* the context is resolved from changes while the picker is shown), and is
\* dismissed
ModalConfirm(task, omit_history) ==
    /\ pc = "idle"
    /\ modal
    /\ modal' = FALSE
    /\ schedule_task(task, current_context, omit_history, "modal")
    /\ error_log' = 0
    /\ UNCHANGED <<project, workspace_items, last_scheduled, pending_spawns,
                   results>>

Next ==
    \/ \E sel \in Selections : ChangeSelections(sel)
    \/ \E item \in DOMAIN editors \cup {"other"} : ActivateItem(item)
    \/ AddWorktree
    \/ RemoveWorktree
    \/ \E entry \in {None} \cup {Some(i) : i \in OpenRootIds} :
           SetActiveEntry(entry)
    \/ \E reevaluate_context \in BOOLEAN : Rerun(reevaluate_context)
    \/ SpawnModal
    \/ \E name \in TaskNames : SpawnNamed(name)
    \/ CloseWorkspace
    \/ SpawnTaskWithName
    \/ \E task \in Tasks, omit_history \in BOOLEAN :
           ModalConfirm(task, omit_history)
    \/ SchedulePrepare
    \/ ScheduleRecord
    \/ ScheduleEmit
    \/ HandlerReturn

Spec == Init /\ [][Next]_vars

\* a statement of schedule_task, or the return of the handler that called it
ScheduleStep ==
    \/ SchedulePrepare
    \/ ScheduleRecord
    \/ ScheduleEmit
    \/ HandlerReturn

\* a handler that has started runs on: schedule_task has no await
SpecLive == Init /\ [][Next]_vars /\ WF_vars(ScheduleStep)

(***************************************************************************)
(* task_cwd called on any project of up to MaxWorktrees roots, each        *)
(* visible or hidden, local or remote, rooted at a directory, at a file or *)
(* at nothing, with the active entry absent, inside one of the roots, or   *)
(* (entry 0) inside none.                                                  *)
(***************************************************************************)
WorktreeKinds == [is_visible : BOOLEAN, is_local : BOOLEAN, root_entry : RootEntries]

InitCwd ==
    /\ \E n \in 0..MaxWorktrees :
          \E kinds \in [1..n -> WorktreeKinds] :
             worktrees = [i \in 1..n |->
                            Worktree(i, kinds[i].is_visible, kinds[i].is_local,
                                     kinds[i].root_entry)]
    /\ active_entry \in {None} \cup {Some(e) : e \in 0..MaxWorktrees}
    /\ active_item = "editor2"
    /\ editors = InitEditors
    /\ Idle

TaskCwd ==
    /\ cwd_result = None
    /\ cwd_result' = Some(task_cwd(worktrees, active_entry))
    /\ UNCHANGED <<project, workspace_items, last_scheduled, pending_spawns,
                   modal, scheduler, context_result>>

NextCwd == TaskCwd

SpecCwd == InitCwd /\ [][NextCwd]_vars

(***************************************************************************)
(* task_context called with any working directory on any workspace: no     *)
(* active item, an item that is no editor, or an editor whose selection    *)
(* start maps to a buffer offset or not, on a buffer with no file, a local *)
(* file, a remote file or a file of a root that is not in the project,     *)
(* whose language has no context provider, one that fails, or one that     *)
(* returns up to MaxProviderVars variables under any names.                *)
(***************************************************************************)
ActiveItems == {"none", "other", "editor1"}

\* the buffers: text, outline, language, and the offsets a selection is put at
Buffers ==
    {[text |-> RustText, outline |-> RustOutline, language |-> Some("rust"),
      offsets |-> {0, 14, 18}],
     [text |-> TypescriptText, outline |-> TypescriptOutline,
      language |-> Some("typescript"), offsets |-> {0, 14, 18}],
     [text |-> RowsText, outline |-> << >>, language |-> Some("text"),
      offsets |-> 0..Len(RowsText)]}

BufferFiles ==
    {None,
     Some(RustFile),
     Some([is_local |-> FALSE, abs_path |-> "/dir/rust/b.rs", worktree_id |-> 1]),
     Some([is_local |-> TRUE, abs_path |-> "/dir2/c.rs", worktree_id |-> 2])}

WellKnownNames == {Row, Column, SelectedText, File, WorktreeRoot}

ProviderNames == WellKnownNames \cup {Symbol}

\* what a provider returns under a name: positions from 0, text of its own
ProviderValue(name) ==
    IF name \in {Row, Column} THEN "0" ELSE "provider_" \o name

CwdArguments == {None} \cup {Some(WorktreePath(i)) : i \in OpenRootIds}

InitCtx ==
    /\ \E n \in 0..Cardinality(OpenRootIds) :
          worktrees = [i \in 1..n |-> OpenWorktree(i)]
    /\ active_entry = None
    /\ active_item \in ActiveItems
    /\ \E buffer \in Buffers, map \in BOOLEAN, file \in BufferFiles :
          \E sel \in SelectionsAt(buffer.offsets) :
             \/ \E provider \in {None, Some(SymbolContextProvider),
                                 Some(FailingProvider)} :
                   editors = [item \in {"editor1"} |->
                                 Editor(buffer.text, buffer.outline,
                                        buffer.language, file, provider,
                                        sel, map)]
             \/ \E names \in SUBSET ProviderNames :
                   /\ Cardinality(names) <= MaxProviderVars
                   /\ editors = [item \in {"editor1"} |->
                                    Editor(buffer.text, buffer.outline,
                                           buffer.language, file,
                                           Some(FixedProvider(
                                               [k \in names |->
                                                   ProviderValue(k)])),
                                           sel, map)]
    /\ Idle

TaskContextCall(cwd) ==
    /\ context_result = None
    /\ context_result' =
           Some([cwd |-> cwd,
                 context |-> task_context(current_editor, worktrees, cwd)])
    /\ UNCHANGED <<project, workspace_items, last_scheduled, pending_spawns,
                   modal, scheduler, cwd_result>>

NextCtx == \E cwd \in CwdArguments : TaskContextCall(cwd)

SpecCtx == InitCtx /\ [][NextCtx]_vars

(***************************************************************************)
(* What the claims speak of, stated on the state itself.                   *)
(***************************************************************************)
\* the roots that are visible, local and rooted at a directory
QualifyingRoots ==
    {i \in 1..Len(worktrees) :
        /\ worktrees[i].is_visible
        /\ worktrees[i].is_local
        /\ worktrees[i].root_entry = Some([is_dir |-> TRUE])}

\* the qualifying roots the active entry lies in
RootsOfActiveEntry ==
    {i \in QualifyingRoots :
        active_entry # None /\ Unwrap(active_entry) \in worktrees[i].entries}

\* the roots of any kind the active entry lies in
AnyRootsOfActiveEntry ==
    {i \in 1..Len(worktrees) :
        active_entry # None /\ Unwrap(active_entry) \in worktrees[i].entries}

AmbiguousRoots == Cardinality(QualifyingRoots) > 1 /\ RootsOfActiveEntry = {}

\* the editor that is the active item
editor == editors[active_item]

Scheduling == pc \in {"prepare", "record", "emit", "return"}

ScheduledTask == Unwrap(call.task)

ScheduledContext == Unwrap(call.task_cx)

\* the flows that resolve a working directory right before they schedule
ResolvingFlows == {"spawn_with_name", "rerun_reevaluate"}

RerunFlows == {"rerun", "rerun_reevaluate"}

(***************************************************************************)
(* C1                                                                      *)
(***************************************************************************)
\* C1: the last-scheduled slot changes only in a scheduling attempt whose
\* prepare produced a descriptor, and then to that attempt's (task, context);
\* an attempt whose prepare returns nothing goes straight to its end and
\* leaves the slot as it was.
C1_HistoryOnlyOnSuccessfulPrepare ==
    [][ /\ (last_scheduled' # last_scheduled =>
              /\ Scheduling
              /\ IsSome(call.spawn_in_terminal)
              /\ call.spawn_in_terminal = prepare_exec(ScheduledTask, ScheduledContext)
              /\ last_scheduled' = Some(<<ScheduledTask, ScheduledContext>>))
        /\ (pc = "prepare" /\ prepare_exec(ScheduledTask, ScheduledContext) = None =>
              pc' = "return" /\ last_scheduled' = last_scheduled)
        /\ (pc = "return" /\ call.spawn_in_terminal = None =>
              pc' = "idle" /\ last_scheduled' = last_scheduled)
      ]_vars

\* a failed prepare has just ended an attempt, and an earlier task is still
\* the last scheduled one
C1_Witness ==
    /\ pc = "return"
    /\ call.prepare_calls = 1
    /\ call.spawn_in_terminal = None
    /\ IsSome(last_scheduled)
    /\ Unwrap(last_scheduled)[2] # ScheduledContext

(***************************************************************************)
(* C2, C9, C10: task_cwd                                                   *)
(***************************************************************************)
\* C2: with more than one qualifying root and the active entry absent or in
\* none of the qualifying roots, task_cwd returns an error, never a path or
\* None.
C2_AmbiguityFailsClosed ==
    (IsSome(cwd_result) /\ AmbiguousRoots) =>
        /\ ~Unwrap(cwd_result).ok
        /\ Unwrap(cwd_result) = Err("Cannot determine task cwd for multiple worktrees")

\* task_cwd failed while the active entry lies in a hidden root only
C2_Witness ==
    /\ IsSome(cwd_result)
    /\ AmbiguousRoots
    /\ ~Unwrap(cwd_result).ok
    /\ AnyRootsOfActiveEntry # {}
    /\ \A i \in AnyRootsOfActiveEntry : ~worktrees[i].is_visible

\* C9: with more than one qualifying root and the active entry in exactly
\* one of them, B, task_cwd returns Ok(Some(B's path)), wherever B stands in
\* the list of roots.
C9_ActiveEntryPicksItsRoot ==
    (IsSome(cwd_result) /\ Cardinality(QualifyingRoots) > 1
        /\ Cardinality(RootsOfActiveEntry) = 1) =>
        \A b \in RootsOfActiveEntry :
            Unwrap(cwd_result) = Ok(Some(worktrees[b].abs_path))

\* task_cwd returned the path of B, which is not the first qualifying root
C9_Witness ==
    /\ IsSome(cwd_result)
    /\ Cardinality(QualifyingRoots) > 1
    /\ \E b \in RootsOfActiveEntry :
          /\ \E a \in QualifyingRoots : a < b
          /\ Unwrap(cwd_result) = Ok(Some(worktrees[b].abs_path))

\* C10: with at most one qualifying root task_cwd never fails and does not
\* look at the active entry: Ok(None) with no qualifying root, Ok(Some(R's
\* path)) with the single qualifying root R.
C10_AtMostOneRootNeverFails ==
    (IsSome(cwd_result) /\ Cardinality(QualifyingRoots) <= 1) =>
        /\ (QualifyingRoots = {} => Unwrap(cwd_result) = Ok(None))
        /\ \A r \in QualifyingRoots :
               Unwrap(cwd_result) = Ok(Some(worktrees[r].abs_path))

\* task_cwd returned the single qualifying root's path while the active
\* entry lies in another, non-qualifying root
C10_Witness ==
    /\ IsSome(cwd_result)
    /\ Cardinality(QualifyingRoots) = 1
    /\ AnyRootsOfActiveEntry # {}
    /\ AnyRootsOfActiveEntry \cap QualifyingRoots = {}
    /\ \E r \in QualifyingRoots :
           Unwrap(cwd_result) = Ok(Some(worktrees[r].abs_path))

(***************************************************************************)
(* C3                                                                      *)
(***************************************************************************)
\* C3 as claimed: in the flows that resolve a working directory before they
\* schedule, nothing is scheduled while the resolution is ambiguous.
C3_AmbiguityStopsScheduling ==
    ~(Scheduling /\ call.origin \in ResolvingFlows /\ AmbiguousRoots)

\* C3: in the flows that resolve a working directory before they schedule
\* (spawn by name, rerun with re-evaluated context), an ambiguous resolution
\* is logged as an error and the flow goes on: the task is scheduled with a
\* context whose working directory is absent.
C3_AmbiguityLoggedThenDefaulted ==
    (Scheduling /\ call.origin \in ResolvingFlows) =>
        /\ error_log = (IF AmbiguousRoots THEN 1 ELSE 0)
        /\ (AmbiguousRoots => ScheduledContext.cwd = None)
        /\ (~AmbiguousRoots =>
              Ok(ScheduledContext.cwd) = task_cwd(worktrees, active_entry))

\* a spawn request is about to leave a flow whose resolution was ambiguous
C3_Witness ==
    /\ pc = "return"
    /\ call.origin \in ResolvingFlows
    /\ AmbiguousRoots
    /\ Len(pending_effects) = 1
    /\ pending_effects[1].spawn.cwd = None

(***************************************************************************)
(* C4, C5: schedule_task                                                   *)
(***************************************************************************)
\* C4: with omit_history false, when the spawn request is emitted (and from
\* then to the end of the attempt) the last-scheduled slot already holds the
\* (task, context) of this attempt.
C4_RecordedBeforeEmitted ==
    (~call.omit_history /\ (pc = "emit" \/ pending_effects # << >>)) =>
        last_scheduled = Some(<<ScheduledTask, ScheduledContext>>)

\* the spawn request is about to be emitted for an attempt that recorded
\* history
C4_Witness ==
    /\ pc = "emit"
    /\ ~call.omit_history
    /\ call.origin = "spawn_with_name"
    /\ last_scheduled = Some(<<ScheduledTask, ScheduledContext>>)

\* C5: at the end of an attempt prepare has been called once and the events
\* emitted are exactly the one SpawnTask carrying prepare's descriptor when
\* prepare succeeded (omit_history true or false), none when it returned
\* nothing; between attempts as many SpawnTask events have been emitted as
\* prepares have succeeded.
C5_OneSpawnPerSuccessfulPrepare ==
    /\ (pc = "return" =>
          /\ call.prepare_calls = 1
          /\ call.spawn_in_terminal = prepare_exec(ScheduledTask, ScheduledContext)
          /\ pending_effects =
                 (IF IsSome(call.spawn_in_terminal)
                  THEN <<SpawnTask(Unwrap(call.spawn_in_terminal))>>
                  ELSE << >>))
    /\ (pc \in {"idle", "return"} => stats.spawned = stats.prepared)
    /\ (pc = "idle" => pending_effects = << >>)

\* an attempt with omit_history true ends with its one spawn request, the
\* second of the run
C5_Witness ==
    /\ pc = "return"
    /\ call.omit_history
    /\ Len(pending_effects) = 1
    /\ stats.spawned = 2
    /\ stats.prepared = 2

(***************************************************************************)
(* C6, C7, C8: the Rerun handler                                           *)
(***************************************************************************)
\* C6: a rerun without re-evaluation schedules the stored task with the
\* stored context, whatever the editor and the project are now.
C6_StaleRerunReusesStoredContext ==
    (Scheduling /\ call.origin = "rerun") =>
        /\ IsSome(last_scheduled)
        /\ call.task = Some(Unwrap(last_scheduled)[1])
        /\ call.task_cx = Some(Unwrap(last_scheduled)[2])

\* a stale rerun is scheduling a context that differs from the one the
\* present cursor, selection, active item and roots resolve to, in its
\* working directory and in its variables
C6_Witness ==
    /\ pc = "prepare"
    /\ call.origin = "rerun"
    /\ ScheduledContext.cwd # current_context.cwd
    /\ ScheduledContext.task_variables # current_context.task_variables
    /\ IsSome(current_editor)

\* C7: a rerun with re-evaluation schedules the stored task with the context
\* resolved from the present state: the working directory task_cwd gives now
\* and, with an editor active, Row, Column and SelectedText of the present
\* selection.
C7_ReevaluatedRerunUsesFreshContext ==
    (pc = "prepare" /\ call.origin = "rerun_reevaluate") =>
        /\ IsSome(last_scheduled)
        /\ call.task = Some(Unwrap(last_scheduled)[1])
        /\ ScheduledContext = current_context
        /\ ScheduledContext.cwd = LogErrFlatten(task_cwd(worktrees, active_entry))
        /\ (IsSome(current_editor) =>
              /\ ScheduledContext.task_variables[Row] =
                     ToString(offset_to_point(editor.text, editor.selection.start).row + 1)
              /\ ScheduledContext.task_variables[Column] =
                     ToString(offset_to_point(editor.text, editor.selection.start).column + 1)
              /\ ScheduledContext.task_variables[SelectedText] =
                     chars_for_range(editor.text, editor.selection.start, editor.selection.end))

\* a re-evaluated rerun is scheduling a Column and a SelectedText that
\* differ from the stored ones, and a Symbol that the stored context has not
C7_Witness ==
    /\ pc = "prepare"
    /\ call.origin = "rerun_reevaluate"
    /\ IsSome(current_editor)
    /\ LET stored == Unwrap(last_scheduled)[2].task_variables
           fresh == ScheduledContext.task_variables
       IN  /\ {Row, Column, SelectedText} \subseteq DOMAIN stored
           /\ stored[Column] # fresh[Column]
           /\ stored[SelectedText] # fresh[SelectedText]
           /\ Symbol \in DOMAIN fresh \ DOMAIN stored

\* a rerun without re-evaluation starts in this step
StaleRerunStarts ==
    /\ pc = "idle"
    /\ pc' = "prepare"
    /\ call'.origin = "rerun"

\* C8: a rerun never omits the history: once its prepare has succeeded and
\* the history step is past, the last-scheduled slot holds the same task
\* with the context the rerun used; the slot then stays as it is until the
\* history step of a later attempt, and a rerun without re-evaluation that
\* starts takes the task and the context that the slot holds, which after a
\* rerun are the ones that rerun used.
C8_RerunRefreshesHistory ==
    /\ []((Scheduling /\ call.origin \in RerunFlows) =>
             /\ ~call.omit_history
             /\ ((pc \in {"emit", "return"} /\ IsSome(call.spawn_in_terminal)) =>
                    last_scheduled = Some(<<ScheduledTask, ScheduledContext>>))
             /\ (IsSome(last_scheduled) =>
                    Unwrap(last_scheduled)[1] = ScheduledTask))
    /\ [][/\ (pc # "record" => last_scheduled' = last_scheduled)
          /\ (StaleRerunStarts =>
                 /\ IsSome(last_scheduled)
                 /\ call'.task = Some(Unwrap(last_scheduled)[1])
                 /\ call'.task_cx = Some(Unwrap(last_scheduled)[2])
                 /\ ~call'.omit_history)]_vars

\* a re-evaluated rerun has refreshed the slot to
\* the context it resolved, which has no working directory; a rerun can
\* follow it
C8_Witness ==
    /\ pc = "return"
    /\ call.origin = "rerun_reevaluate"
    /\ IsSome(call.spawn_in_terminal)
    /\ last_scheduled = Some(<<ScheduledTask, current_context>>)
    /\ AmbiguousRoots
    /\ stats.spawned < MaxSpawns

(***************************************************************************)
(* Context resolution: what a call of task_context returned, against the   *)
(* editor, the file and the provider it was called on.                     *)
(***************************************************************************)
Resolved == IsSome(context_result)

GivenCwd == Unwrap(context_result).cwd

ResolvedContext == Unwrap(context_result).context

ResolvedVariables == ResolvedContext.task_variables

\* an editor is active and its selection start maps to a buffer offset
EditorResolves == IsSome(current_editor) /\ editor.mappable

ProviderFails ==
    /\ IsSome(editor.provider)
    /\ ~build_context(Unwrap(editor.provider), editor).ok

\* what the provider returned: nothing when there is none or when it failed
ProviderVariables ==
    IF IsSome(editor.provider)
       /\ build_context(Unwrap(editor.provider), editor).ok
    THEN build_context(Unwrap(editor.provider), editor).val
    ELSE EmptyVariables

\* the roots of the project that the buffer's file belongs to
RootsOfFile ==
    IF editor.file = None THEN {}
    ELSE {i \in 1..Len(worktrees) :
             worktrees[i].id = Unwrap(editor.file).worktree_id}

\* the well-known variables the resolver has a value for
WellKnownPresent ==
    {Row, Column, SelectedText}
        \cup (IF editor.file # None /\ Unwrap(editor.file).is_local
              THEN {File} ELSE {})
        \cup (IF RootsOfFile # {} THEN {WorktreeRoot} ELSE {})

\* the value the resolver computes for a well-known variable
WellKnownValue(name) ==
    CASE name = Row ->
             ToString(offset_to_point(editor.text, editor.selection.start).row + 1)
      [] name = Column ->
             ToString(offset_to_point(editor.text, editor.selection.start).column + 1)
      [] name = SelectedText ->
             chars_for_range(editor.text, editor.selection.start, editor.selection.end)
      [] name = File -> Unwrap(editor.file).abs_path
      [] name = WorktreeRoot -> worktrees[Min(RootsOfFile)].abs_path

\* C11: with no active editor, and with a selection start that maps to no
\* buffer offset, task_context returns exactly the working directory it was
\* given and an empty variable set; and no result is partial: one that has
\* any variable has Row, Column and SelectedText.
C11_DegradesToCwdAndEmpty ==
    Resolved =>
        /\ ResolvedContext.cwd = GivenCwd
        /\ (~EditorResolves =>
               /\ ResolvedContext = TaskContext(GivenCwd, EmptyVariables)
               /\ DOMAIN ResolvedVariables \cap ProviderNames = {})
        /\ (DOMAIN ResolvedVariables # {} =>
               {Row, Column, SelectedText} \subseteq DOMAIN ResolvedVariables)

\* an editor on a local file of a root, with a provider that returns
\* variables, whose selection start maps to no offset: only the working
\* directory came back
C11_Witness ==
    /\ Resolved
    /\ IsSome(current_editor)
    /\ ~editor.mappable
    /\ IsSome(GivenCwd)
    /\ {File, WorktreeRoot} \subseteq WellKnownPresent
    /\ DOMAIN ProviderVariables # {}
    /\ ResolvedVariables = EmptyVariables

\* C12: a provider that fails is swallowed: the result has the working
\* directory given and exactly the well-known variables with the values the
\* resolver computes, no others; it is not the empty set.
C12_ProviderFailureSwallowed ==
    (Resolved /\ EditorResolves /\ ProviderFails) =>
        /\ ResolvedContext.cwd = GivenCwd
        /\ DOMAIN ResolvedVariables = WellKnownPresent
        /\ \A name \in WellKnownPresent :
              ResolvedVariables[name] = WellKnownValue(name)
        /\ Symbol \notin DOMAIN ResolvedVariables
        /\ ResolvedVariables # EmptyVariables

\* a failed provider, and a result with all five well-known variables
C12_Witness ==
    /\ Resolved
    /\ EditorResolves
    /\ ProviderFails
    /\ IsSome(GivenCwd)
    /\ DOMAIN ResolvedVariables = WellKnownNames

\* C13: the provider's variables are applied last: every name it returns is
\* in the result with the provider's value, whatever the name; every
\* well-known variable it did not return keeps the resolver's value; the
\* result has no other names (a map: each name once).
C13_ProviderVariablesWin ==
    (Resolved /\ EditorResolves) =>
        /\ DOMAIN ResolvedVariables =
               WellKnownPresent \cup DOMAIN ProviderVariables
        /\ \A name \in DOMAIN ProviderVariables :
              ResolvedVariables[name] = ProviderVariables[name]
        /\ \A name \in WellKnownPresent \ DOMAIN ProviderVariables :
              ResolvedVariables[name] = WellKnownValue(name)

\* the provider returned Row and File, both different from what the resolver
\* computes, and the result has the provider's beside the resolver's Column
C13_Witness ==
    /\ Resolved
    /\ EditorResolves
    /\ DOMAIN ProviderVariables = {Row, File}
    /\ File \in WellKnownPresent
    /\ ResolvedVariables[Row] # WellKnownValue(Row)
    /\ ResolvedVariables[File] # WellKnownValue(File)
    /\ ResolvedVariables[Column] = WellKnownValue(Column)

\* C14 as stated: in every successful resolution Row and Column are the
\* position of the selection start counted from 1, and neither is "0".
C14_RowColumnAlwaysOneBased ==
    (Resolved /\ EditorResolves) =>
        /\ ResolvedVariables[Row] = WellKnownValue(Row)
        /\ ResolvedVariables[Column] = WellKnownValue(Column)
        /\ ResolvedVariables[Row] # "0"
        /\ ResolvedVariables[Column] # "0"

\* C14: in every successful resolution each of Row and Column that the
\* provider did not return is the position of the selection start (not its
\* end) counted from 1, and is not "0"; the start of the buffer gives "1".
C14_RowColumnOneBasedUnlessProvided ==
    (Resolved /\ EditorResolves) =>
        \A name \in {Row, Column} \ DOMAIN ProviderVariables :
            /\ ResolvedVariables[name] = WellKnownValue(name)
            /\ ResolvedVariables[name] # "0"
            /\ (editor.selection.start = 0 => ResolvedVariables[name] = "1")

\* a selection whose start and end differ in row and in column: Row and
\* Column are those of the start
C14_Witness ==
    /\ Resolved
    /\ EditorResolves
    /\ DOMAIN ProviderVariables \cap {Row, Column} = {}
    /\ offset_to_point(editor.text, editor.selection.start).row #
           offset_to_point(editor.text, editor.selection.end).row
    /\ offset_to_point(editor.text, editor.selection.start).column #
           offset_to_point(editor.text, editor.selection.end).column
    /\ ResolvedVariables[Row] = "1"
    /\ ResolvedVariables[Column] = "2"

\* C15 as stated: in every successful resolution SelectedText is present and
\* is the text of the selection, "" for a selection of no characters.
C15_SelectedTextAlwaysSelection ==
    (Resolved /\ EditorResolves) =>
        /\ SelectedText \in DOMAIN ResolvedVariables
        /\ ResolvedVariables[SelectedText] =
               chars_for_range(editor.text, editor.selection.start, editor.selection.end)
        /\ (editor.selection.start = editor.selection.end =>
               ResolvedVariables[SelectedText] = "")

\* C15: in every successful resolution SelectedText is present; unless the
\* provider returned a SelectedText of its own, it is the text of the
\* selection, "" for a selection of no characters.
C15_SelectedTextPresentUnlessProvided ==
    (Resolved /\ EditorResolves) =>
        /\ SelectedText \in DOMAIN ResolvedVariables
        /\ (SelectedText \notin DOMAIN ProviderVariables =>
               /\ ResolvedVariables[SelectedText] =
                      chars_for_range(editor.text, editor.selection.start,
                                      editor.selection.end)
               /\ (editor.selection.start = editor.selection.end =>
                      ResolvedVariables[SelectedText] = ""))

\* a selection of no characters, a provider that returned other variables:
\* SelectedText is there and is ""
C15_Witness ==
    /\ Resolved
    /\ EditorResolves
    /\ editor.selection.start = editor.selection.end
    /\ DOMAIN ProviderVariables = {Symbol}
    /\ SelectedText \in DOMAIN ResolvedVariables
    /\ ResolvedVariables[SelectedText] = ""

\* C16: whatever the order of deferred spawns by name and reruns, the slot
\* is empty or holds a task and a context that prepare succeeds on
\* together; the slot changes only at the history step of an attempt whose
\* prepare succeeded, to the task and the context of that one attempt; every
\* attempt that reaches its history step overwrites the slot; and an attempt
\* keeps the task and the context it was called with to its end.
C16_SlotHoldsOneAttemptsPair ==
    /\ [](IsSome(last_scheduled) =>
             IsSome(prepare_exec(Unwrap(last_scheduled)[1],
                                 Unwrap(last_scheduled)[2])))
    /\ [][/\ (last_scheduled' # last_scheduled =>
                 /\ pc = "record"
                 /\ call.spawn_in_terminal =
                        prepare_exec(ScheduledTask, ScheduledContext)
                 /\ IsSome(call.spawn_in_terminal))
          /\ (pc = "record" =>
                 last_scheduled' = Some(<<ScheduledTask, ScheduledContext>>))
          /\ ((Scheduling /\ pc' # "idle") =>
                 /\ call'.task = call.task
                 /\ call'.task_cx = call.task_cx)]_vars

\* the deferred spawn that is polled next finds its task, and prepare
\* succeeds on the context of the present state: polled now, it records
DeferredSpawnRecords ==
    LET properties == active_item_selection_properties
        target_task == find_task(list_tasks(properties.language,
                                            properties.worktree),
                                 Head(pending_spawns))
    IN  /\ IsSome(target_task)
        /\ IsSome(prepare_exec(Unwrap(target_task), current_context))
        /\ <<Unwrap(target_task), current_context>> # Unwrap(last_scheduled)

\* a rerun that ran while two spawns by name were deferred has overwritten
\* the slot, after an earlier attempt had written it, with its own task and
\* context, which is not the context of the present state; the deferred
\* spawn polled next records another pair, and both can still be spawned
C16_Witness ==
    /\ pc = "return"
    /\ call.origin \in RerunFlows
    /\ Len(pending_spawns) = 2
    /\ DeferredSpawnRecords
    /\ stats.prepared = 2
    /\ stats.spawned + Len(pending_spawns) <= MaxSpawns
    /\ last_scheduled = Some(<<ScheduledTask, ScheduledContext>>)
    /\ ScheduledContext # current_context

\* the event of the attempt, and nothing else, is what the attempt emitted
Emitted ==
    /\ IsSome(call.spawn_in_terminal)
    /\ pending_effects = <<SpawnTask(Unwrap(call.spawn_in_terminal))>>

\* the slot holds the task and the context of the attempt
Recorded == last_scheduled = Some(<<ScheduledTask, ScheduledContext>>)

\* prepare failed and the attempt emitted nothing
NoOp == call.spawn_in_terminal = None /\ pending_effects = << >>

\* C17 as stated: at its end every attempt has called prepare once and is
\* either recorded and emitted, or a no-op.
C17_TwoTerminalStates ==
    pc = "return" =>
        /\ call.prepare_calls = 1
        /\ \/ (IsSome(call.spawn_in_terminal) /\ Recorded /\ Emitted)
           \/ NoOp

\* C17: every attempt ends, and ends in one of three states: recorded and
\* emitted, emitted only (omit_history is true), or a no-op; prepare is
\* called once in an attempt: a failed prepare goes straight to the return,
\* and the return leaves the deferred spawns, the picker and the slot as
\* they are.
C17_AttemptEndsInOneOfThree ==
    /\ [](Scheduling =>
             call.prepare_calls = IF pc = "prepare" THEN 0 ELSE 1)
    /\ [](pc = "return" =>
             \/ /\ IsSome(call.spawn_in_terminal)
                /\ ~call.omit_history
                /\ Recorded
                /\ Emitted
             \/ /\ IsSome(call.spawn_in_terminal)
                /\ call.omit_history
                /\ Emitted
             \/ NoOp)
    /\ [][/\ ((pc = "prepare" /\ call'.spawn_in_terminal = None) =>
                 pc' = "return")
          /\ (pc = "return" =>
                 /\ pc' = "idle"
                 /\ UNCHANGED <<pending_spawns, modal, last_scheduled>>)]_vars
    /\ (pc = "prepare") ~> (pc = "idle")

\* an attempt has ended with its event emitted while the slot holds the
\* pair of an earlier attempt
C17_Witness ==
    /\ pc = "return"
    /\ call.omit_history
    /\ Emitted
    /\ IsSome(last_scheduled)
    /\ ~Recorded

\* C18: an attempt with omit_history leaves the slot as it was from its call
\* to its return, whether prepare succeeds or fails; when prepare succeeds
\* it ends with its event emitted; nothing changes the slot between two
\* attempts; and the rerun that follows takes the task and, without
\* re-evaluation, the context that the slot holds.
C18_OmitHistoryKeepsSlot ==
    /\ [][((Scheduling /\ call.omit_history)
              \/ (pc = "idle" /\ pc' = "prepare" /\ call'.omit_history)) =>
             last_scheduled' = last_scheduled]_vars
    /\ [][pc = "idle" => last_scheduled' = last_scheduled]_vars
    /\ []((pc = "return" /\ call.omit_history
              /\ IsSome(call.spawn_in_terminal)) => Emitted)
    /\ [][(pc = "idle" /\ pc' = "prepare" /\ call'.origin \in RerunFlows) =>
             /\ IsSome(last_scheduled)
             /\ call'.task = Some(Unwrap(last_scheduled)[1])
             /\ (call'.origin = "rerun" =>
                    call'.task_cx = Some(Unwrap(last_scheduled)[2]))]_vars

\* a task scheduled with omit_history has emitted its event while the slot
\* still holds another task, which a rerun can follow and take
C18_Witness ==
    /\ pc = "return"
    /\ call.omit_history
    /\ IsSome(call.spawn_in_terminal)
    /\ pending_effects # << >>
    /\ IsSome(last_scheduled)
    /\ Unwrap(last_scheduled)[1] # ScheduledTask
    /\ stats.spawned < MaxSpawns

\* C19: with nothing in the slot a Rerun step, with or without
\* re-evaluation, changes nothing: no attempt starts, prepare is not called,
\* no error of a working directory resolution is logged, nothing is emitted,
\* the slot stays empty; so no rerun attempt is ever under way with an empty
\* slot before its history step.
C19_RerunOnEmptySlotIsNoOp ==
    /\ [][(last_scheduled = None
              /\ \E reevaluate_context \in BOOLEAN :
                    Rerun(reevaluate_context)) =>
             UNCHANGED vars]_vars
    /\ [][(last_scheduled = None /\ pc = "idle" /\ pc' # "idle") =>
             call'.origin \notin RerunFlows]_vars
    /\ []((Scheduling /\ call.origin \in RerunFlows) =>
             IsSome(last_scheduled))

\* nothing is in the slot though a task has been spawned (with omit_history),
\* and the roots are ambiguous: a rerun that resolved a context would log
\* the error
C19_Witness ==
    /\ pc = "idle"
    /\ ~modal
    /\ last_scheduled = None
    /\ stats.spawned > 0
    /\ AmbiguousRoots
    /\ error_log = 0

\* the future of spawn_task_with_name is polled in this step
SpawnByNameStep ==
    /\ pc = "idle"
    /\ pending_spawns # << >>
    /\ pending_spawns' = Tail(pending_spawns)

\* the tasks listed for the active item
listed_tasks ==
    list_tasks(active_item_selection_properties.language,
               active_item_selection_properties.worktree)

\* the positions in the listing of the tasks of the requested name
NamedPositions ==
    {i \in 1..Len(listed_tasks) : listed_tasks[i].name = Head(pending_spawns)}

\* what spawn by name does but for the picker: with a task of that name, the
\* first one listed is scheduled with the context of the present state and
\* omit_history false, and the picker is left alone; with none, nothing is
\* scheduled, nothing emitted, the slot is unchanged and the request is gone
SpawnByNameSchedules ==
    IF NamedPositions # {}
    THEN /\ pc' = "prepare"
         /\ call'.task = Some(listed_tasks[Min(NamedPositions)])
         /\ call'.task_cx = Some(current_context)
         /\ call'.omit_history = FALSE
         /\ call'.origin = "spawn_with_name"
         /\ modal' = modal
    ELSE /\ pc' = "modal"
         /\ call' = call
         /\ pending_effects' = << >>
         /\ stats' = stats
         /\ last_scheduled' = last_scheduled

\* C20: spawn by name schedules the first listed task of that name with a
\* fresh context and omit_history false; with no such task it schedules
\* nothing and, once, opens the picker.
C20_SpawnByNameSchedulesOrOpensPicker ==
    [][SpawnByNameStep =>
          /\ SpawnByNameSchedules
          /\ (NamedPositions = {} => modal')]_vars

====
